---- MODULE Spec2Model ----
(***************************************************************************)
(* Model of spacex_dash_app.py: the start-up of the dashboard (load_data,  *)
(* the slider and dropdown defaults) and its two Dash callbacks,           *)
(* get_pie_chart and get_scatter_plot, driven by control-change events.    *)
(*                                                                         *)
(* A data frame is a record [columns, rows]; a row is a function from the  *)
(* column names to cell values.  A missing cell is NaN in a numeric column *)
(* and NA in a text column.  Payloads are in kilograms.                    *)
(***************************************************************************)
EXTENDS Integers, Sequences, FiniteSets, TLC

VARIABLES source, phase, load_error, spacex_df, dropdown_options,
          site, payload_range, pie, scatter, raised

vars == <<source, phase, load_error, spacex_df, dropdown_options,
          site, payload_range, pie, scatter, raised>>

(***************************** bounds ***************************************)
\* longest CSV body that is enumerated
MaxRows == 2
(************************** cell values *************************************)
\* pandas' missing value in a numeric column
NaN == -1
\* pandas' missing value in a text column
NA == "nan"

SITE == "Launch Site"
CLASS == "class"
PAYLOAD == "Payload Mass (kg)"
BOOSTER == "Booster Version Category"
\* a column of the CSV that the program does not use
EXTRA == "Flight Number"

required_cols == {SITE, CLASS, PAYLOAD, BOOSTER}

\* positions of the range slider that are enumerated (step 1000)
SliderStops == {1000, 2000, 3000}

Row(s, c, p, b) ==
    [x \in required_cols \cup {EXTRA} |->
        CASE x = SITE -> s
          [] x = CLASS -> c
          [] x = PAYLOAD -> p
          [] x = BOOSTER -> b
          [] OTHER -> 1]

Restrict(row, cols) == [x \in cols |-> row[x]]

RECURSIVE SumSeq(_)
SumSeq(q) == IF q = << >> THEN 0 ELSE Head(q) + SumSeq(Tail(q))

\* The cells <<site, class, payload, booster>> of the enumerated rows: every
\* well-formed combination, and two of them with one cell at a time missing
\* or (for the outcome) holding a value other than 0 and 1.
RegularCells == {"A", "B"} \X {0, 1} \X {1000, 3000} \X {"FT"}

Carriers == { <<"A", 1, 1000, "FT">>, <<"B", 0, 3000, "FT">> }

IrregularCells ==
    UNION { { <<NA, t[2], t[3], t[4]>>, <<t[1], 2, t[3], t[4]>>, <<t[1], NaN, t[3], t[4]>>,
              <<t[1], t[2], NaN, t[4]>>, <<t[1], t[2], t[3], NA>> } : t \in Carriers }

Cells == RegularCells \cup IrregularCells

Bodies == UNION { [1..n -> Cells] : n \in 0..MaxRows }

\* the four launches of the specification's scenarios
ScenarioBody ==
    << <<"A", 1, 1000, "FT">>, <<"A", 0, 2000, "FT">>,
       <<"B", 1, 3000, "FT">>, <<"B", 1, 4000, "FT">> >>

\* every enumerated CSV carries the unused column; any required one may lack
Headers == { h \cup {EXTRA} : h \in SUBSET required_cols }

Csv(cols, d) ==
    [exists |-> TRUE, readable |-> TRUE, columns |-> cols,
     rows |-> [i \in 1..Len(d) |-> Restrict(Row(d[i][1], d[i][2], d[i][3], d[i][4]), cols)]]

Sources ==
    { [exists |-> FALSE, readable |-> FALSE, columns |-> {}, rows |-> << >>],
      [exists |-> TRUE, readable |-> FALSE, columns |-> {}, rows |-> << >>] }
    \cup { Csv(h, d) : h \in Headers, d \in Bodies \cup {ScenarioBody} }


(***************************** load_data ************************************)
\* spacex_df before load_data has returned, and after it has raised
NoData == [columns |-> {}, rows |-> << >>]

missing_colsUsedByPie(columns) == {SITE, CLASS} \ columns
missing_cols(columns) == required_cols \ columns

\* load_data(path): the exception it raises, or the frame it returns.  The
\* ValueError names sorted(missing); the model keeps the set of names.
load_data(src) ==
    IF ~src.exists
    THEN [raises |-> "FileNotFoundError", missing |-> {}, df |-> NoData]
    ELSE IF ~src.readable
    THEN [raises |-> "ReadError", missing |-> {}, df |-> NoData]
    ELSE IF missing_cols(src.columns) # {}
    THEN [raises |-> "ValueError", missing |-> missing_cols(src.columns), df |-> NoData]
    ELSE [raises |-> "none", missing |-> {},
          df |-> [columns |-> src.columns, rows |-> src.rows]]

(*************************** domain index ***********************************)
Column(df, name) == [i \in 1..Len(df.rows) |-> df.rows[i][name]]

Range(q) == { q[i] : i \in 1..Len(q) }

\* Series.min() and Series.max() skip missing values; NaN when none is left
min_payload(df) ==
    LET S == Range(Column(df, PAYLOAD)) \ {NaN}
    IN IF S = {} THEN NaN ELSE CHOOSE m \in S : \A x \in S : m <= x

max_payload(df) ==
    LET S == Range(Column(df, PAYLOAD)) \ {NaN}
    IN IF S = {} THEN NaN ELSE CHOOSE m \in S : \A x \in S : m >= x

\* the distinct sites, missing ones dropped (the code sorts them for display)
launch_sites(df) == Range(Column(df, SITE)) \ {NA}

DropdownValues(df) == {"ALL"} \cup launch_sites(df)

(*************************** the reactions **********************************)
\* comparisons of a cell with a bound: any comparison with NaN is False
Ge(x, y) == x # NaN /\ y # NaN /\ x >= y
Le(x, y) == x # NaN /\ y # NaN /\ x <= y

InRangeWrongBound(p, low, high) == Ge(p, low) /\ Ge(p, high)
InRangeExclusive(p, low, high) == Ge(p, low) /\ Le(p, high) /\ p # high
InRange(p, low, high) == Ge(p, low) /\ Le(p, high)

PayloadFilter(df, low, high) ==
    LET keep(r) == InRange(r[PAYLOAD], low, high)
    IN [columns |-> df.columns, rows |-> SelectSeq(df.rows, keep)]

SiteFilter(df, entered_site) ==
    LET keep(r) == r[SITE] = entered_site
    IN [columns |-> df.columns, rows |-> SelectSeq(df.rows, keep)]

RECURSIVE SortDesc(_)
SortDesc(S) ==
    IF S = {} THEN << >>
    ELSE LET m == CHOOSE x \in S : \A y \in S : x >= y
         IN <<m>> \o SortDesc(S \ {m})

RECURSIVE SortAsc(_)
SortAsc(S) ==
    IF S = {} THEN << >>
    ELSE LET m == CHOOSE x \in S : \A y \in S : x <= y
         IN <<m>> \o SortAsc(S \ {m})

\* Series.value_counts(): the distinct values, missing ones dropped, each with
\* the number of rows that hold it
value_counts(q) ==
    [v \in Range(q) \ {NaN} |-> Cardinality({ i \in 1..Len(q) : q[i] = v })]

\* the class column is float64 as soon as one of its cells is missing
IsFloat(df) == NaN \in Range(Column(df, CLASS))

\* str() of an outcome value of that dtype
AsStr(v, float) == IF float THEN ToString(v) \o ".0" ELSE ToString(v)

OutcomeLabel(v, float) ==
    CASE v = 0 -> "Failure"
      [] v = 1 -> "Success"
      [] OTHER -> AsStr(v, float)

EmptyPie == [title |-> "", labels |-> << >>, values |-> << >>]
EmptyScatter == [title |-> "", points |-> << >>]

AllSitesPieLaunches(df) ==
    [title |-> "Total Successful Launches by Site",
     labels |-> Column(df, SITE),
     values |-> [i \in 1..Len(df.rows) |-> 1]]
AllSitesPie(df) ==
    [title |-> "Total Successful Launches by Site",
     labels |-> Column(df, SITE),
     values |-> Column(df, CLASS)]

SingleSitePie(df, entered_site) ==
    LET filtered_df == SiteFilter(df, entered_site)
        counts == value_counts(Column(filtered_df, CLASS))
        order == SortAsc(DOMAIN counts)
    IN [title |-> "Total Launch Outcomes for site " \o entered_site,
        labels |-> [k \in 1..Len(order) |-> OutcomeLabel(order[k], IsFloat(df))],
        values |-> [k \in 1..Len(order) |-> counts[order[k]]]]

get_pie_chart(df, entered_site) ==
    IF entered_site = "ALL" THEN AllSitesPie(df) ELSE SingleSitePie(df, entered_site)

Point(r) == <<r[PAYLOAD], r[CLASS], r[BOOSTER]>>

get_scatter_plot(df, entered_site, low, high) ==
    LET df1 == PayloadFilter(df, low, high)
        df2 == IF entered_site # "ALL" THEN SiteFilter(df1, entered_site) ELSE df1
    IN [title |-> IF entered_site # "ALL"
                  THEN "Correlation between Payload and Success for site " \o entered_site
                  ELSE "Correlation between Payload and Success for all Sites",
        points |-> [i \in 1..Len(df2.rows) |-> Point(df2.rows[i])]]

\* a pie trace shows one slice per distinct label, sized by the sum of the
\* numeric values that carry the label
RECURSIVE SumOver(_, _)
SumOver(I, f) ==
    IF I = {} THEN 0
    ELSE LET i == CHOOSE x \in I : TRUE IN f[i] + SumOver(I \ {i}, f)

Slices(fig) ==
    [l \in Range(fig.labels) |->
        SumOver({ i \in 1..Len(fig.labels) : fig.labels[i] = l /\ fig.values[i] # NaN },
                fig.values)]

(**************************** the callbacks *********************************)
\* the value None of a control, a request's payload of an unexpected type
None == << >>

Return(fig) == [raised |-> "none", fig |-> fig]
Raise(exc) == [raised |-> exc]

\* the Input components of each callback
PieInputs == {"site-dropdown"}
ScatterInputsSiteOnly == {"site-dropdown"}
ScatterInputs == {"site-dropdown", "payload-slider"}

\* What one invocation of each callback does with the state ctl of the two
\* controls.  Neither function catches an exception, so an exception leaves
\* the function and no figure is returned.
PieCallbackFiltered(df, ctl) ==
    Return(get_pie_chart(
        IF Len(ctl.payload_range) = 2
        THEN PayloadFilter(df, ctl.payload_range[1], ctl.payload_range[2])
        ELSE df, ctl.site))
PieCallback(df, ctl) == Return(get_pie_chart(df, ctl.site))

ScatterCallback(df, ctl) ==
    IF Len(ctl.payload_range) # 2
    THEN \* low, high = payload_range cannot unpack the value
         Raise("TypeError")
    ELSE Return(get_scatter_plot(df, ctl.site, ctl.payload_range[1],
                                 ctl.payload_range[2]))

\* the module global spacex_df after an invocation: both functions bind local
\* names only and boolean indexing builds a new frame
GlobalReboundByScatter(df, ctl) ==
    IF Len(ctl.payload_range) = 2
    THEN PayloadFilter(df, ctl.payload_range[1], ctl.payload_range[2])
    ELSE df
GlobalAfterScatter(df, ctl) == df
GlobalAfterPie(df, ctl) == df

(****************************** actions *************************************)
Init ==
    /\ source \in Sources
    /\ phase = "import"
    /\ load_error = [raises |-> "none", missing |-> {}]
    /\ spacex_df = NoData
    /\ dropdown_options = {}
    /\ site = "ALL"
    /\ payload_range = None
    /\ pie = EmptyPie
    /\ scatter = EmptyScatter
    /\ raised = [pie |-> "none", scatter |-> "none"]

\* spacex_df = load_data(DATA_PATH) at import; an exception ends the process
LoadData ==
    /\ phase = "import"
    /\ LET r == load_data(source)
       IN /\ load_error' = [raises |-> r.raises, missing |-> r.missing]
          /\ spacex_df' = r.df
          /\ phase' = IF r.raises = "none" THEN "loaded" ELSE "aborted"
    /\ UNCHANGED <<source, dropdown_options, site, payload_range, pie, scatter, raised>>

\* the slider and dropdown defaults, the layout, and the server starts
BuildLayout ==
    /\ phase = "loaded"
    /\ dropdown_options' = DropdownValues(spacex_df)
    /\ site' = "ALL"
    /\ payload_range' = <<min_payload(spacex_df), max_payload(spacex_df)>>
    /\ phase' = "serving"
    /\ UNCHANGED <<source, load_error, spacex_df, pie, scatter, raised>>

\* The callbacks in `fired` run, each to completion, on the control state ctl.
\* A figure that is returned replaces the chart; after an exception the chart
\* stays as it was.
React(fired, ctl) ==
    /\ LET po == PieCallback(spacex_df, ctl)
           so == ScatterCallback(spacex_df, ctl)
       IN
        /\ pie' = IF "pie" \in fired /\ po.raised = "none" THEN po.fig ELSE pie
        /\ scatter' = IF "scatter" \in fired /\ so.raised = "none" THEN so.fig ELSE scatter
        /\ raised' = [pie |-> IF "pie" \in fired THEN po.raised ELSE raised.pie,
                      scatter |-> IF "scatter" \in fired THEN so.raised ELSE raised.scatter]
    /\ spacex_df' =
        LET d1 == IF "pie" \in fired THEN GlobalAfterPie(spacex_df, ctl) ELSE spacex_df
        IN IF "scatter" \in fired THEN GlobalAfterScatter(d1, ctl) ELSE d1

Fired(control) ==
    (IF control \in PieInputs THEN {"pie"} ELSE {})
    \cup (IF control \in ScatterInputs THEN {"scatter"} ELSE {})

\* the page is opened: Dash calls every callback once with the defaults
PageLoad ==
    /\ phase = "serving"
    /\ phase' = "interactive"
    /\ React({"pie", "scatter"}, [site |-> site, payload_range |-> payload_range])
    /\ UNCHANGED <<source, load_error, dropdown_options, site, payload_range>>

\* the user picks another entry of the dropdown
SiteChange(s) ==
    /\ phase = "interactive"
    /\ s \in dropdown_options /\ s # site
    /\ site' = s
    /\ React(Fired("site-dropdown"), [site |-> s, payload_range |-> payload_range])
    /\ UNCHANGED <<source, phase, load_error, dropdown_options, payload_range>>

\* the user moves a handle of the range slider
SliderChange(r) ==
    /\ phase = "interactive"
    /\ r # payload_range
    /\ payload_range' = r
    /\ React(Fired("payload-slider"), [site |-> site, payload_range |-> r])
    /\ UNCHANGED <<source, phase, load_error, dropdown_options, site>>

SliderValues == { r \in SliderStops \X SliderStops : r[1] <= r[2] }

Next ==
    \/ LoadData
    \/ BuildLayout
    \/ PageLoad
    \/ \E s \in dropdown_options : SiteChange(s)
    \/ \E r \in SliderValues : SliderChange(r)

Spec == Init /\ [][Next]_vars

\* a request whose slider value is None reaches the server
MalformedSliderChange ==
    /\ phase = "interactive"
    /\ payload_range # None
    /\ payload_range' = None
    /\ React(Fired("payload-slider"), [site |-> site, payload_range |-> None])
    /\ UNCHANGED <<source, phase, load_error, dropdown_options, site>>

NextFaulty == Next \/ MalformedSliderChange

SpecFaulty == Init /\ [][NextFaulty]_vars

(**************************** properties ************************************)
Rows == spacex_df.rows
Idx == 1..Len(Rows)
Ctl == [site |-> site, payload_range |-> payload_range]
Numeric(r) == Len(r) = 2 /\ r[1] # NaN /\ r[2] # NaN
Count(S) == Cardinality(S)

\* the rows that satisfy both predicates of the filter, by position
Passing(s, low, high) ==
    { i \in Idx : /\ Rows[i][PAYLOAD] # NaN
                  /\ low <= Rows[i][PAYLOAD] /\ Rows[i][PAYLOAD] <= high
                  /\ (s = "ALL" \/ Rows[i][SITE] = s) }

\* the k-th smallest member of a set of positions
Nth(I, k) == CHOOSE i \in I : Count({ j \in I : j <= i }) = k

\* C1: for a range low <= high the correlation chart holds exactly the rows
\* with low <= payload <= high (both inclusive) of the selected site (every
\* site for "ALL"), one point per row, in the order of the dataset, with the
\* row's payload, outcome and booster category; no match gives zero points
\* and no error.
C1_ScatterIsExactFilter ==
    (phase = "interactive" /\ Numeric(payload_range) /\ payload_range[1] <= payload_range[2])
    => LET I == Passing(site, payload_range[1], payload_range[2])
       IN /\ raised.scatter = "none"
          /\ Len(scatter.points) = Count(I)
          /\ \A k \in 1..Count(I) :
                scatter.points[k] = << Rows[Nth(I, k)][PAYLOAD], Rows[Nth(I, k)][CLASS],
                                       Rows[Nth(I, k)][BOOSTER] >>

C1_Witness ==
    /\ phase = "interactive" /\ site # "ALL" /\ Len(Rows) >= 2
    /\ Len(scatter.points) = 1
    /\ scatter.points[1][1] = payload_range[2]
    /\ payload_range[1] < payload_range[2]

\* C2: the distribution chart is the same for every payload range: whatever
\* the slider holds or is moved to, the pie callback gives the chart shown.
C2_PieIgnoresPayloadRange ==
    phase = "interactive"
    => \A r \in SliderValues \cup {payload_range} :
          PieCallback(spacex_df, [site |-> site, payload_range |-> r]) = Return(pie)

C2_Witness ==
    /\ phase = "interactive" /\ site # "ALL"
    /\ Len(pie.labels) > 0
    /\ scatter.points = << >>
    /\ payload_range \in SliderValues

SiteSum(s) ==
    SumSeq([i \in Idx |-> IF Rows[i][SITE] = s /\ Rows[i][CLASS] # NaN
                          THEN Rows[i][CLASS] ELSE 0])
ClassSum == SumSeq([i \in Idx |-> IF Rows[i][CLASS] # NaN THEN Rows[i][CLASS] ELSE 0])
Successes == Count({ i \in Idx : Rows[i][CLASS] = 1 })
SliceTotal(fig) == SumOver(DOMAIN Slices(fig), Slices(fig))
OnlyBinary(I) == \A i \in I : Rows[i][CLASS] \in {0, 1, NaN}
IsScenario == Len(Rows) = 4 /\ \A i \in Idx : Point(Rows[i]) = <<ScenarioBody[i][3], ScenarioBody[i][2], ScenarioBody[i][4]>>
                            /\ Rows[i][SITE] = ScenarioBody[i][1]

\* C3 as stated: in all-sites mode the slices add up to the number of
\* successes (outcome = 1) of the whole dataset.
C3_SlicesAddUpToSuccesses ==
    (phase = "interactive" /\ site = "ALL") => SliceTotal(pie) = Successes

\* C3 as amended: in all-sites mode every site's slice is the sum of the
\* outcome values of the site's rows in the whole dataset, the slices add up
\* to the sum of all outcome values, and to the number of successes when
\* every outcome present is 0 or 1; sites A,A,B,B with outcomes 1,0,1,1 give
\* A:1, B:2.
C3_AllSitesSums ==
    (phase = "interactive" /\ site = "ALL")
    => /\ \A s \in launch_sites(spacex_df) : Slices(pie)[s] = SiteSum(s)
       /\ SliceTotal(pie) = ClassSum
       /\ OnlyBinary(Idx) => SliceTotal(pie) = Successes
       /\ IsScenario => Slices(pie) = ("A" :> 1 @@ "B" :> 2)

C3_Witness ==
    /\ phase = "interactive" /\ site = "ALL" /\ IsScenario
    /\ payload_range \in SliderValues
    /\ Slices(pie)["B"] = 2

SiteRows(s) == { i \in Idx : Rows[i][SITE] = s }
SiteOutcomes(s) == { Rows[i][CLASS] : i \in SiteRows(s) } \ {NaN}
LabelOf(v) ==
    IF v = 0 THEN "Failure" ELSE IF v = 1 THEN "Success"
    ELSE IF \E i \in Idx : Rows[i][CLASS] = NaN THEN "2.0" ELSE "2"
SliceOf(fig, label) ==
    IF label \in Range(fig.labels) THEN Slices(fig)[label] ELSE 0

\* C4: in single-site mode the chart has one entry per distinct outcome value
\* of the site's rows, valued with the number of the site's rows that hold it,
\* labelled Failure for 0, Success for 1 and the value's string otherwise, in
\* ascending order of the raw value; with only 0/1 outcomes Success and
\* Failure add up to the number of rows of the site.
C4_SingleSiteCounts ==
    (phase = "interactive" /\ site # "ALL")
    => LET V == SiteOutcomes(site)
       IN /\ Len(pie.labels) = Count(V) /\ Len(pie.values) = Count(V)
          /\ \A v \in V :
                LET k == 1 + Count({ w \in V : w < v })
                IN /\ pie.labels[k] = LabelOf(v)
                   /\ pie.values[k] = Count({ i \in SiteRows(site) : Rows[i][CLASS] = v })
          /\ (\A i \in SiteRows(site) : Rows[i][CLASS] \in {0, 1})
                => SliceOf(pie, "Success") + SliceOf(pie, "Failure") = Count(SiteRows(site))

C4_Witness ==
    /\ phase = "interactive" /\ site # "ALL"
    /\ pie.labels = <<"Success", "2">>
    /\ pie.values = <<1, 1>>

RECURSIVE IsSubSeq(_, _)
IsSubSeq(a, b) ==
    IF a = << >> THEN TRUE
    ELSE IF b = << >> THEN FALSE
    ELSE IF Head(a) = Head(b) THEN IsSubSeq(Tail(a), Tail(b))
    ELSE IsSubSeq(a, Tail(b))

\* C5: widening the range never loses a row: the points shown for the range
\* of the slider are kept, in order, by the filter for every range around it.
C5_WideningKeepsRows ==
    (phase = "interactive" /\ payload_range \in SliderValues)
    => \A w \in SliderValues :
          (w[1] <= payload_range[1] /\ payload_range[2] <= w[2])
          => IsSubSeq(scatter.points, get_scatter_plot(spacex_df, site, w[1], w[2]).points)

C5_Witness ==
    /\ phase = "interactive" /\ payload_range = <<2000, 3000>>
    /\ Len(scatter.points) = 1
    /\ Len(get_scatter_plot(spacex_df, site, 1000, 3000).points) = 2

SourceOk == source.exists /\ source.readable /\ required_cols \subseteq source.columns

\* C6: loading is all or nothing: a missing file and an unreadable file raise
\* a load error, a header that lacks required columns raises a schema error
\* that names exactly those columns, anything else is returned whole; after a
\* failure there is no dataset, no chart is ever produced and nothing more
\* happens.
C6_LoadAllOrNothing ==
    /\ phase # "import" =>
        /\ ~source.exists => load_error.raises = "FileNotFoundError"
        /\ (source.exists /\ ~source.readable) => load_error.raises = "ReadError"
        /\ (source.exists /\ source.readable /\ ~SourceOk) =>
              /\ load_error.raises = "ValueError"
              /\ load_error.missing = { c \in required_cols : c \notin source.columns }
        /\ SourceOk =>
              /\ load_error.raises = "none"
              /\ spacex_df.columns = source.columns /\ spacex_df.rows = source.rows
        /\ (phase = "aborted") <=> ~SourceOk
    /\ ~SourceOk =>
        /\ spacex_df = NoData /\ pie = EmptyPie /\ scatter = EmptyScatter
        /\ phase \in {"import", "aborted"}
    /\ phase = "aborted" => ~ENABLED Next

C6_Witness ==
    /\ phase = "aborted"
    /\ load_error.raises = "ValueError"
    /\ load_error.missing = {PAYLOAD, BOOSTER}
    /\ Len(source.rows) > 0

\* C7: no reaction lets an exception leave it: an error inside a reaction is
\* caught at its boundary.
C7_NoExceptionLeavesAReaction ==
    raised.pie = "none" /\ raised.scatter = "none"

\* C8: every record of a loaded dataset has its four core fields present
\* and non-null.
C8_LoadedRowsHaveNoNull ==
    phase \in {"loaded", "serving", "interactive"}
    => \A i \in Idx : /\ Rows[i][SITE] # NA /\ Rows[i][BOOSTER] # NA
                      /\ Rows[i][CLASS] # NaN /\ Rows[i][PAYLOAD] # NaN

\* C9: whatever events came before, the two charts shown are the functions
\* of the current control values and the loaded dataset.
C9_ChartsFollowControls ==
    phase = "interactive"
    => /\ PieCallback(load_data(source).df, Ctl) = Return(pie)
       /\ ScatterCallback(load_data(source).df, Ctl) = Return(scatter)

C9_Witness ==
    /\ phase = "interactive" /\ site # "ALL"
    /\ payload_range = <<1000, 2000>>
    /\ Len(scatter.points) = 1 /\ Len(Rows) = 2
    /\ Len(pie.labels) = 2

====
